---- MODULE Spec2Model ----
(***************************************************************************)
(* A model of usgs_exporter.py: the /metrics handler (metrics), the       *)
(* per-gauge reading client (fetch_usgs_gauge), the gauge list loader      *)
(* (load_gauges) and the process-wide Prometheus metric registry they      *)
(* write.                                                                  *)
(*                                                                         *)
(* A handler is one invocation of metrics().  Its reading tasks are the    *)
(* futures of its ThreadPoolExecutor.  Every action holds at most one      *)
(* locked access to the shared registry (metric.labels(...) and the        *)
(* .set(...) on the child it returns are two), so the interleavings of the *)
(* actions are the interleavings of the threads.                           *)
(***************************************************************************)
EXTENDS Integers, Sequences, FiniteSets, TLC

----------------------------------------------------------------------------
(* Bounds of the model *)

MaxGauges == 2        \* longest gauge list drawn by Init
MaxWorkersCfg == 2    \* largest configured USGS_MAX_WORKERS drawn by Init
MaxCycles == 2        \* /metrics requests served one after the other

----------------------------------------------------------------------------
(* Values *)

Absent == "ABSENT"    \* a key that a dict does not have
Null == "NULL"        \* Python's None as a value (yaml null)

\* str(v), as Gauge.labels applies it to every label value.
Str(v) == IF v = Null THEN "None" ELSE v

\* A Python float: NaN or a number.
NaN == [nan |-> TRUE, v |-> 0]
Num(n) == [nan |-> FALSE, v |-> n]
IsNaN(x) == x.nan

\* Python's x != y on floats: NaN is unequal to everything, itself included.
FloatNe(x, y) == IF IsNaN(x) \/ IsNaN(y) THEN TRUE ELSE x.v # y.v

\* The credential list of fetch_usgs_gauge, in the order it is iterated.
Credentials == <<"primary", "backup">>
Labels == {"primary", "backup"}

\* A response header: absent, a string int() rejects, or an integer string.
HAbsent == [tag |-> "absent", n |-> 0]
HText == [tag |-> "text", n |-> 0]
HInt(n) == [tag |-> "int", n |-> n]

\* Python's int(x) on a header value: a number, or the exception it raises.
IntOf(h) ==
    IF h.tag = "absent" THEN [exc |-> "TypeError", n |-> 0]
    ELSE IF h.tag = "text" THEN [exc |-> "ValueError", n |-> 0]
    ELSE [exc |-> "none", n |-> h.n]

\* Response bodies, by what r.json() and the parse make of them.
BodyTags == {"invalid_json", "nofeatures", "number", "nested",
             "nested_novalue", "value_missing"}
Body(tag, n) == [tag |-> tag, n |-> n]

\* An upstream answer to one session.get: a transport exception (after the
\* adapter's retries and the timeout), or a status with headers and body.
Resp(exc, status, rem, lim, body) ==
    [exc |-> exc, status |-> status, remaining |-> rem, limit |-> lim,
     body |-> body]
TransportError == Resp(TRUE, 0, HAbsent, HAbsent, Body("invalid_json", 0))
HttpError(status) == Resp(FALSE, status, HAbsent, HAbsent, Body("invalid_json", 0))
Ok(rem, lim, body) == Resp(FALSE, 200, rem, lim, body)

\* r.raise_for_status(): raises HTTPError for 4xx and 5xx, and for no other
\* status.
RaisesForStatus(r) == r.status >= 400 /\ r.status < 600

\* Lines 128-135: the value parsed from a 2xx body, or an exception.
ParseBody(b) ==
    IF b.tag = "invalid_json" THEN [exc |-> TRUE, val |-> NaN]
    ELSE IF b.tag = "nofeatures" THEN [exc |-> FALSE, val |-> NaN]
    ELSE IF b.tag = "number" THEN [exc |-> FALSE, val |-> Num(b.n)]
    ELSE IF b.tag = "nested" THEN [exc |-> FALSE, val |-> Num(b.n)]
    ELSE IF b.tag = "nested_novalue" THEN [exc |-> FALSE, val |-> NaN]
    ELSE [exc |-> TRUE, val |-> NaN]   \* float(None) raises TypeError

\* Mutant of UsedOf: the operands of line 125 swapped.
UsedOfSwapped(r) ==
    IF IntOf(r.limit).exc # "none" THEN [exc |-> TRUE, n |-> 0]
    ELSE IF IntOf(r.remaining).exc # "none" THEN [exc |-> TRUE, n |-> 0]
    ELSE [exc |-> FALSE, n |-> IntOf(r.remaining).n - IntOf(r.limit).n]

\* Line 125: int(limit) - int(remaining), or the exception it raises.
UsedOf(r) ==
    IF IntOf(r.limit).exc # "none" THEN [exc |-> TRUE, n |-> 0]
    ELSE IF IntOf(r.remaining).exc # "none" THEN [exc |-> TRUE, n |-> 0]
    ELSE [exc |-> FALSE, n |-> IntOf(r.limit).n - IntOf(r.remaining).n]

----------------------------------------------------------------------------
(* Gauge descriptors and the gauge file *)

Desc(id, name, friendly) == [id |-> id, name |-> name, friendly_name |-> friendly]

\* Lines 160-162: dict.get gives its default only for a key that is missing; a
\* key whose value is null gives None.
GaugeId(g) == g.id
LocationName(g) == IF g.name # Absent THEN g.name ELSE g.id
FriendlyName(g) ==
    IF g.friendly_name # Absent THEN g.friendly_name ELSE LocationName(g)

\* Lines 175-179: the label values of the descriptor's child, each through
\* str().
LabelsOf(g) == <<Str(GaugeId(g)), Str(FriendlyName(g)), Str(LocationName(g))>>

\* Lines 78-90: a file that is not a list, or a list with an entry that has no
\* "id" key, is rejected as a whole and read as the empty list; an entry whose
\* "id" is null has the key and is kept.
load_gauges(file) ==
    IF file.kind # "list" THEN <<>>
    ELSE IF \E i \in 1..Len(file.entries) : file.entries[i].id = Absent THEN <<>>
    ELSE file.entries

Min(a, b) == IF a < b THEN a ELSE b

\* Line 156: max_workers of the executor.
PoolSize(maxWorkers, gs) == Min(maxWorkers, Len(gs))

----------------------------------------------------------------------------
(* Metric registry helpers *)

\* child.set(v) on the child of key k that metric.labels(k) returned.
SetChild(m, k, v) == [x \in DOMAIN m \cup {k} |-> IF x = k THEN v ELSE m[x]]

\* metric.labels(k): the child of key k is returned, created at zero if the
\* metric does not have it.
TouchChild(m, k, zero) ==
    [x \in DOMAIN m \cup {k} |-> IF x \in DOMAIN m THEN m[x] ELSE zero]

----------------------------------------------------------------------------
(* State *)

Handlers == {1, 2}    \* invocations of metrics() that may be in progress

VARIABLES
    gaugesFile,             \* what yaml.safe_load reads from GAUGES_FILE
    MAX_WORKERS,            \* line 61
    apiKeys,                \* lines 62-63: label -> is the secret set
    upstream,               \* <<gauge id, label>> -> the answer to that request
    USGS_STREAMFLOW,        \* lines 15-19: label triple -> value
    SCRAPE_SUCCESS,         \* lines 21-24
    SCRAPE_FAILURE,         \* lines 26-29
    GAUGES_TOTAL,           \* lines 31-34
    SCRAPE_DURATION,        \* lines 36-39
    USGS_API_RATELIMIT_REMAINING,   \* lines 41-45: label -> value
    USGS_API_RATELIMIT_LIMIT,       \* lines 47-51: label -> value
    USGS_API_REQUESTS_PER_HOUR,     \* lines 53-57: label -> value
    pc,                     \* handler -> its position in metrics()
    gauges,                 \* handler -> the local list gauges
    successes,              \* handler -> the local counter successes
    failures,               \* handler -> the local counter failures
    tasks,                  \* handler -> its futures, in submission order
    inserted,               \* labelled metric -> its children's keys, oldest first
    collected,              \* handler -> how far its generate_latest() has read
    rendered,               \* the last responses returned, oldest first
    cyclesLeft              \* /metrics requests still to arrive

config == <<gaugesFile, MAX_WORKERS, apiKeys, upstream>>
scalars == <<SCRAPE_SUCCESS, SCRAPE_FAILURE, GAUGES_TOTAL, SCRAPE_DURATION>>
ratelimits == <<USGS_API_RATELIMIT_REMAINING, USGS_API_RATELIMIT_LIMIT,
                USGS_API_REQUESTS_PER_HOUR>>
locals == <<gauges, successes, failures, collected>>
vars == <<config, USGS_STREAMFLOW, scalars, ratelimits, inserted, pc, locals,
          tasks, rendered, cyclesLeft>>

\* The metrics of the registry, in the order of their registration (lines
\* 15-57), which is the order generate_latest() collects them in.
Metrics ==
    <<USGS_STREAMFLOW, SCRAPE_SUCCESS, SCRAPE_FAILURE, GAUGES_TOTAL,
      SCRAPE_DURATION, USGS_API_RATELIMIT_REMAINING, USGS_API_RATELIMIT_LIMIT,
      USGS_API_REQUESTS_PER_HOUR>>

\* Their names, and those that have children (labelnames, lines 18, 44, 50,
\* 56).  A labelled metric keeps its children in a dict, which is iterated in
\* the order the children were created.
Names ==
    <<"streamflow", "success", "failure", "gauges_total", "duration",
      "remaining", "limit", "used">>
Labelled == {"streamflow", "remaining", "limit", "used"}

\* The order of the children after metric.labels(k) on metric m of that name.
Inserted(name, m, k) ==
    IF k \in DOMAIN m THEN inserted
    ELSE [inserted EXCEPT ![name] = Append(@, k)]

\* A generate_latest() in progress: the metrics read so far (done) and, while a
\* labelled metric is being read (open), the copy of its children dict (keys,
\* in the dict's order), the values read from them so far (vals), and those
\* children of the copy that clear() has since removed from the metric, with
\* the values they keep (held).
NoRead == [done |-> <<>>, open |-> FALSE, keys |-> <<>>, vals |-> <<>>,
           held |-> <<>>]

\* The response body made of the metrics as they were collected.
SnapshotOf(ms) ==
    [streamflow |-> ms[1],
     success |-> ms[2],
     failure |-> ms[3],
     gauges_total |-> ms[4],
     duration |-> ms[5],
     remaining |-> ms[6],
     limit |-> ms[7],
     used |-> ms[8]]

\* The registry as it is now.
Snapshot == SnapshotOf(Metrics)

\* The answer to the request handler h serves: its status and, for 200, the
\* rendered metrics; with it, the list the handler loaded and the number of
\* requests still to arrive (MaxCycles - 1 for the first request).
Response(h, status, snap) ==
    [h |-> h, left |-> cyclesLeft, status |-> status, gauges |-> gauges[h],
     snapshot |-> snap]

\* When a request arrives, only the latest response is kept to compare the
\* next one with.
Latest(rs) == IF rs = <<>> THEN <<>> ELSE <<rs[Len(rs)]>>

\* A future just submitted.  orphan: the child that labels() returned for the
\* merge of this future's result has since been removed from its metric.
NewTask == [st |-> "queued", cred |-> 1, step |-> "request", result |-> NaN,
            raised |-> FALSE, reqs |-> <<>>, orphan |-> FALSE]

Running(h) == {i \in 1..Len(tasks[h]) : tasks[h][i].st = "running"}
Queued(h) == {i \in 1..Len(tasks[h]) : tasks[h][i].st = "queued"}

\* The registry and the handlers after import of the module.
InitProcess ==
    /\ USGS_STREAMFLOW = <<>>
    /\ SCRAPE_SUCCESS = 0
    /\ SCRAPE_FAILURE = 0
    /\ GAUGES_TOTAL = 0
    /\ SCRAPE_DURATION = 0
    /\ USGS_API_RATELIMIT_REMAINING = <<>>
    /\ USGS_API_RATELIMIT_LIMIT = <<>>
    /\ USGS_API_REQUESTS_PER_HOUR = <<>>
    /\ pc = [h \in Handlers |-> "idle"]
    /\ gauges = [h \in Handlers |-> <<>>]
    /\ successes = [h \in Handlers |-> 0]
    /\ failures = [h \in Handlers |-> 0]
    /\ tasks = [h \in Handlers |-> <<>>]
    /\ inserted = [n \in Labelled |-> <<>>]
    /\ collected = [h \in Handlers |-> NoRead]
    /\ rendered = <<>>

----------------------------------------------------------------------------
(* metrics() *)

\* Lines 148-150: a request arrives; the list is loaded, GAUGES_TOTAL is set.
StartCycle(h) ==
    /\ pc[h] = "idle"
    /\ cyclesLeft > 0
    /\ cyclesLeft' = cyclesLeft - 1
    /\ gauges' = [gauges EXCEPT ![h] = load_gauges(gaugesFile)]
    /\ GAUGES_TOTAL' = Len(load_gauges(gaugesFile))
    /\ tasks' = [tasks EXCEPT ![h] = <<>>]
    /\ pc' = [pc EXCEPT ![h] = "clear"]
    /\ rendered' = Latest(rendered)
    /\ UNCHANGED <<inserted, config, USGS_STREAMFLOW, SCRAPE_SUCCESS, SCRAPE_FAILURE,
                   SCRAPE_DURATION, ratelimits, successes, failures, collected>>

\* USGS_STREAMFLOW.clear() drops every child of the metric: a child that a
\* handler holds from labels() and has not set yet is no longer the metric's.
Orphaned(ts) ==
    [g \in Handlers |->
        [i \in 1..Len(ts[g]) |->
            IF ts[g][i].st = "merging" THEN [ts[g][i] EXCEPT !.orphan = TRUE]
            ELSE ts[g][i]]]

\* A generate_latest() that has copied the children dict of USGS_STREAMFLOW
\* and not read all their values goes on reading the children of its copy
\* after clear() has removed them from the metric.  Nothing writes such a
\* child any more: a handler sets a child only in its as_completed loop, and of
\* the two handlers one is in generate_latest() and the other is calling
\* clear().
Detached(cs) ==
    [g \in Handlers |->
        IF cs[g].open /\ Len(cs[g].done) = 0 /\ DOMAIN cs[g].held = {}
        THEN [cs[g] EXCEPT !.held =
                 [k \in {cs[g].keys[j] : j \in 1..Len(cs[g].keys)} |->
                     USGS_STREAMFLOW[k]]]
        ELSE cs[g]]

\* Mutant of ClearStreamflow: the counters are not reset for the new cycle.
ClearStreamflowKeepCounters(h) ==
    /\ pc[h] = "clear"
    /\ USGS_STREAMFLOW' = <<>>
    /\ inserted' = [inserted EXCEPT !["streamflow"] = <<>>]
    /\ tasks' = Orphaned(tasks)
    /\ collected' = Detached(collected)
    /\ pc' = [pc EXCEPT ![h] = "executor"]
    /\ UNCHANGED <<config, scalars, ratelimits, gauges, successes, failures,
                   rendered, cyclesLeft>>

\* Lines 151-154: every child of USGS_STREAMFLOW is removed, counters start at 0.
ClearStreamflow(h) ==
    /\ pc[h] = "clear"
    /\ USGS_STREAMFLOW' = <<>>
    /\ inserted' = [inserted EXCEPT !["streamflow"] = <<>>]
    /\ tasks' = Orphaned(tasks)
    /\ collected' = Detached(collected)
    /\ successes' = [successes EXCEPT ![h] = 0]
    /\ failures' = [failures EXCEPT ![h] = 0]
    /\ pc' = [pc EXCEPT ![h] = "executor"]
    /\ UNCHANGED <<config, scalars, ratelimits, gauges, rendered, cyclesLeft>>

\* Line 156 with max_workers = 0: ThreadPoolExecutor raises ValueError, which
\* leaves metrics(); the request is answered with status 500 and no metrics
\* text (snapshot records the registry as the failed request left it).
ExecutorRaises(h) ==
    /\ pc[h] = "executor"
    /\ PoolSize(MAX_WORKERS, gauges[h]) <= 0
    /\ rendered' = Append(rendered, Response(h, 500, Snapshot))
    /\ pc' = [pc EXCEPT ![h] = "idle"]
    /\ UNCHANGED <<inserted, config, USGS_STREAMFLOW, scalars, ratelimits, locals, tasks,
                   cyclesLeft>>

\* A worker thread of the pool that has nothing to run takes the oldest queued
\* future (the work queue is first in, first out); the pool never has more
\* than max_workers threads.  Taking a future touches nothing but the queue,
\* so it is part of the step that frees or creates the worker.
\* Mutant of StartQueued: every queued task is started, whatever the pool size.
StartAll(ts, pool) ==
    [i \in 1..Len(ts) |->
        IF ts[i].st = "queued" THEN [ts[i] EXCEPT !.st = "running"] ELSE ts[i]]

RECURSIVE StartQueued(_, _)
StartQueued(ts, pool) ==
    LET running == {i \in 1..Len(ts) : ts[i].st = "running"}
        queued == {i \in 1..Len(ts) : ts[i].st = "queued"}
    IN IF queued = {} \/ Cardinality(running) >= pool THEN ts
       ELSE LET i == CHOOSE j \in queued : \A k \in queued : j <= k
            IN StartQueued([ts EXCEPT ![i].st = "running"], pool)

\* Lines 156-157: one future per descriptor is submitted; submit starts worker
\* threads up to max_workers.
Dispatch(h) ==
    /\ pc[h] = "executor"
    /\ PoolSize(MAX_WORKERS, gauges[h]) > 0
    /\ tasks' = [tasks EXCEPT ![h] =
                    StartQueued([i \in 1..Len(gauges[h]) |-> NewTask],
                                PoolSize(MAX_WORKERS, gauges[h]))]
    /\ pc' = [pc EXCEPT ![h] = "collect"]
    /\ UNCHANGED <<inserted, config, USGS_STREAMFLOW, scalars, ratelimits, locals, rendered,
                   cyclesLeft>>

----------------------------------------------------------------------------
(* fetch_usgs_gauge(), run by a worker thread as task i of handler h *)

TaskLabel(t) == Credentials[t.cred]
\* Mutant of TaskResp: every task asks for the last descriptor's gauge (the
\* loop variable captured late).
TaskRespLateBound(h, i) ==
    upstream[<<gauges[h][Len(gauges[h])].id, TaskLabel(tasks[h][i])>>]

TaskResp(h, i) == upstream[<<gauges[h][i].id, TaskLabel(tasks[h][i])>>]

\* The for loop of line 103 moves on: the next credential, or line 143.
NextCredential(t) ==
    IF t.cred = Len(Credentials)
    THEN [t EXCEPT !.st = "finished", !.step = "done", !.result = NaN]
    ELSE [t EXCEPT !.cred = t.cred + 1, !.step = "request"]

\* Mutant of AfterUsed: a parsed value does not end the loop over the
\* credentials.
AfterUsedContinues(t, r) ==
    IF UsedOf(r).exc \/ ParseBody(r.body).exc
    THEN NextCredential(t)
    ELSE NextCredential([t EXCEPT !.result = ParseBody(r.body).val])

\* Lines 125-135 and 141-142, all local to the thread: an exception from line
\* 125 or from the parse of the body ends this credential's turn, a parsed
\* value is returned.
AfterUsed(t, r) ==
    IF UsedOf(r).exc \/ ParseBody(r.body).exc
    THEN NextCredential(t)
    ELSE [t EXCEPT !.st = "finished", !.step = "done", !.result = ParseBody(r.body).val]

\* Lines 110-126: the accesses to the registry that a 2xx response may lead
\* to, in program order.
Steps == <<"rem_labels", "rem_set", "lim_labels", "lim_set", "used_labels",
           "used_set">>

\* Is the k-th access made for response r: labels() if the header is present
\* (lines 111, 118), set() if int() accepts it (a ValueError is passed, lines
\* 114, 121), the two of line 126 if line 125 does not raise.
Applies(r, k) ==
    IF k = 1 THEN r.remaining # HAbsent
    ELSE IF k = 2 THEN IntOf(r.remaining).exc = "none"
    ELSE IF k = 3 THEN r.limit # HAbsent
    ELSE IF k = 4 THEN IntOf(r.limit).exc = "none"
    ELSE ~UsedOf(r).exc

\* The first access made at or after position k, "end" if there is none.
RECURSIVE FirstStep(_, _)
FirstStep(r, k) ==
    IF k > Len(Steps) THEN "end"
    ELSE IF Applies(r, k) THEN Steps[k]
    ELSE FirstStep(r, k + 1)

\* The task after its k-th access (0: after the response has arrived): at its
\* next access to the registry, or through the rest of the turn.
Advance(t, r, k) ==
    IF FirstStep(r, k + 1) = "end" THEN AfterUsed(t, r)
    ELSE [t EXCEPT !.step = FirstStep(r, k + 1)]

\* Mutant of SendRequest: an HTTP error status other than 429 is raised again
\* out of fetch_usgs_gauge.
SendRequestReraises(t, r, hasKey) ==
    LET sent == [t EXCEPT !.reqs = Append(t.reqs, [label |-> TaskLabel(t), key |-> hasKey])]
    IN IF ~r.exc /\ RaisesForStatus(r) /\ r.status # 429
       THEN [sent EXCEPT !.st = "finished", !.step = "done", !.raised = TRUE]
       ELSE IF r.exc \/ RaisesForStatus(r)
       THEN NextCredential(sent)
       ELSE Advance(sent, r, 0)

\* Lines 104-107 and 136-142: the request is sent, with the X-Api-Key header
\* if the secret is set; a transport exception or an HTTP error status, 429 or
\* other, ends this credential's turn.
SendRequest(t, r, hasKey) ==
    LET sent == [t EXCEPT !.reqs = Append(t.reqs, [label |-> TaskLabel(t), key |-> hasKey])]
    IN IF r.exc \/ RaisesForStatus(r)
       THEN NextCredential(sent)
       ELSE Advance(sent, r, 0)

\* The task's record replaced, and the worker it may have freed put to work.
WithTask(h, i, t) ==
    StartQueued([tasks[h] EXCEPT ![i] = t], PoolSize(MAX_WORKERS, gauges[h]))

\* Task i of handler h runs and is at the given access.
TaskAt(h, i, step) ==
    /\ i \in Running(h)
    /\ tasks[h][i].step = step

\* The task has made its k-th access.
TaskAdvances(h, i, k) ==
    tasks' = [tasks EXCEPT ![h] =
                 WithTask(h, i, Advance(tasks[h][i], TaskResp(h, i), k))]

\* Lines 103-107: the request and its answer; nothing shared is read or
\* written.
Request(h, i) ==
    /\ TaskAt(h, i, "request")
    /\ tasks' = [tasks EXCEPT ![h] =
                    WithTask(h, i, SendRequest(tasks[h][i], TaskResp(h, i),
                                               apiKeys[TaskLabel(tasks[h][i])]))]
    /\ UNCHANGED <<inserted, config, USGS_STREAMFLOW, scalars, ratelimits, pc, locals,
                   rendered, cyclesLeft>>

\* Line 113, USGS_API_RATELIMIT_REMAINING.labels(...): the child is created at
\* 0 if the metric does not have it.
RemainingLabels(h, i) ==
    /\ TaskAt(h, i, "rem_labels")
    /\ USGS_API_RATELIMIT_REMAINING' =
           TouchChild(USGS_API_RATELIMIT_REMAINING, TaskLabel(tasks[h][i]), 0)
    /\ inserted' = Inserted("remaining", USGS_API_RATELIMIT_REMAINING,
                            TaskLabel(tasks[h][i]))
    /\ TaskAdvances(h, i, 1)
    /\ UNCHANGED <<config, USGS_STREAMFLOW, scalars, USGS_API_RATELIMIT_LIMIT,
                   USGS_API_REQUESTS_PER_HOUR, pc, locals, rendered, cyclesLeft>>

\* Line 113, .set(int(remaining)).
SetRemaining(h, i) ==
    /\ TaskAt(h, i, "rem_set")
    /\ USGS_API_RATELIMIT_REMAINING' =
           SetChild(USGS_API_RATELIMIT_REMAINING, TaskLabel(tasks[h][i]),
                    IntOf(TaskResp(h, i).remaining).n)
    /\ TaskAdvances(h, i, 2)
    /\ UNCHANGED <<inserted, config, USGS_STREAMFLOW, scalars, USGS_API_RATELIMIT_LIMIT,
                   USGS_API_REQUESTS_PER_HOUR, pc, locals, rendered, cyclesLeft>>

\* Line 120, USGS_API_RATELIMIT_LIMIT.labels(...).
LimitLabels(h, i) ==
    /\ TaskAt(h, i, "lim_labels")
    /\ USGS_API_RATELIMIT_LIMIT' =
           TouchChild(USGS_API_RATELIMIT_LIMIT, TaskLabel(tasks[h][i]), 0)
    /\ inserted' = Inserted("limit", USGS_API_RATELIMIT_LIMIT,
                            TaskLabel(tasks[h][i]))
    /\ TaskAdvances(h, i, 3)
    /\ UNCHANGED <<config, USGS_STREAMFLOW, scalars, USGS_API_RATELIMIT_REMAINING,
                   USGS_API_REQUESTS_PER_HOUR, pc, locals, rendered, cyclesLeft>>

\* Line 120, .set(int(limit)).
SetLimit(h, i) ==
    /\ TaskAt(h, i, "lim_set")
    /\ USGS_API_RATELIMIT_LIMIT' =
           SetChild(USGS_API_RATELIMIT_LIMIT, TaskLabel(tasks[h][i]),
                    IntOf(TaskResp(h, i).limit).n)
    /\ TaskAdvances(h, i, 4)
    /\ UNCHANGED <<inserted, config, USGS_STREAMFLOW, scalars, USGS_API_RATELIMIT_REMAINING,
                   USGS_API_REQUESTS_PER_HOUR, pc, locals, rendered, cyclesLeft>>

\* Line 126, USGS_API_REQUESTS_PER_HOUR.labels(key_label), reached when line
\* 125 has not raised.
UsedLabels(h, i) ==
    /\ TaskAt(h, i, "used_labels")
    /\ USGS_API_REQUESTS_PER_HOUR' =
           TouchChild(USGS_API_REQUESTS_PER_HOUR, TaskLabel(tasks[h][i]), 0)
    /\ inserted' = Inserted("used", USGS_API_REQUESTS_PER_HOUR,
                            TaskLabel(tasks[h][i]))
    /\ TaskAdvances(h, i, 5)
    /\ UNCHANGED <<config, USGS_STREAMFLOW, scalars, USGS_API_RATELIMIT_REMAINING,
                   USGS_API_RATELIMIT_LIMIT, pc, locals, rendered, cyclesLeft>>

\* Mutant of SetUsed: the worker thread writes its reading into the per-gauge
\* map itself.
SetUsedWritesGauge(h, i) ==
    /\ TaskAt(h, i, "used_set")
    /\ USGS_API_REQUESTS_PER_HOUR' =
           SetChild(USGS_API_REQUESTS_PER_HOUR, TaskLabel(tasks[h][i]),
                    UsedOf(TaskResp(h, i)).n)
    /\ USGS_STREAMFLOW' =
           SetChild(USGS_STREAMFLOW, LabelsOf(gauges[h][i]),
                    AfterUsed(tasks[h][i], TaskResp(h, i)).result)
    /\ inserted' = Inserted("streamflow", USGS_STREAMFLOW, LabelsOf(gauges[h][i]))
    /\ TaskAdvances(h, i, 6)
    /\ UNCHANGED <<config, scalars, USGS_API_RATELIMIT_REMAINING,
                   USGS_API_RATELIMIT_LIMIT, pc, locals, rendered, cyclesLeft>>

\* Line 126, .set(used), and lines 128-135: the body is parsed and the value
\* returned, or the turn ends.
SetUsed(h, i) ==
    /\ TaskAt(h, i, "used_set")
    /\ USGS_API_REQUESTS_PER_HOUR' =
           SetChild(USGS_API_REQUESTS_PER_HOUR, TaskLabel(tasks[h][i]),
                    UsedOf(TaskResp(h, i)).n)
    /\ TaskAdvances(h, i, 6)
    /\ UNCHANGED <<inserted, config, USGS_STREAMFLOW, scalars, USGS_API_RATELIMIT_REMAINING,
                   USGS_API_RATELIMIT_LIMIT, pc, locals, rendered, cyclesLeft>>

----------------------------------------------------------------------------
(* metrics(), continued: the as_completed loop and the publication *)

\* Line 166: is the value counted as a success.
CountsAsSuccess(val) == FloatNe(val, NaN)

\* The handler is in the as_completed loop and not inside a pass of it.
Collecting(h) ==
    /\ pc[h] = "collect"
    /\ \A j \in 1..Len(tasks[h]) : tasks[h][j].st # "merging"

\* Mutant of Merge: a reading that is not available is written to the map but
\* counted neither as a success nor as a failure.
MergeSkipsNaN(h, i) ==
    /\ Collecting(h)
    /\ i \in 1..Len(tasks[h])
    /\ tasks[h][i].st = "finished"
    /\ LET t == tasks[h][i]
           val == IF t.raised THEN NaN ELSE t.result
       IN /\ successes' = [successes EXCEPT ![h] = IF IsNaN(val) THEN @ ELSE @ + 1]
          /\ failures' = failures
          /\ USGS_STREAMFLOW' = TouchChild(USGS_STREAMFLOW, LabelsOf(gauges[h][i]), Num(0))
    /\ inserted' = Inserted("streamflow", USGS_STREAMFLOW, LabelsOf(gauges[h][i]))
    /\ tasks' = [tasks EXCEPT ![h][i].st = "merging", ![h][i].orphan = FALSE]
    /\ UNCHANGED <<config, scalars, ratelimits, pc, gauges, collected, rendered,
                   cyclesLeft>>

\* Lines 158-177: as_completed yields a finished future; its value is counted
\* (local to the handler), and USGS_STREAMFLOW.labels(...) returns the child of
\* the descriptor's label triple, created at 0.0 if the metric does not have
\* it.
Merge(h, i) ==
    /\ Collecting(h)
    /\ i \in 1..Len(tasks[h])
    /\ tasks[h][i].st = "finished"
    /\ LET t == tasks[h][i]
           ok == ~t.raised /\ CountsAsSuccess(t.result)
       IN /\ successes' = [successes EXCEPT ![h] = IF ok THEN @ + 1 ELSE @]
          /\ failures' = [failures EXCEPT ![h] = IF ok THEN @ ELSE @ + 1]
          /\ USGS_STREAMFLOW' = TouchChild(USGS_STREAMFLOW, LabelsOf(gauges[h][i]), Num(0))
    /\ inserted' = Inserted("streamflow", USGS_STREAMFLOW, LabelsOf(gauges[h][i]))
    /\ tasks' = [tasks EXCEPT ![h][i].st = "merging", ![h][i].orphan = FALSE]
    /\ UNCHANGED <<config, scalars, ratelimits, pc, gauges, collected, rendered,
                   cyclesLeft>>

\* Line 179, .set(val), on the child line 175 returned: if the metric was
\* cleared in between, the child is not the metric's any more and the value is
\* not seen in the registry.
SetStreamflow(h, i) ==
    /\ pc[h] = "collect"
    /\ i \in 1..Len(tasks[h])
    /\ tasks[h][i].st = "merging"
    /\ LET t == tasks[h][i]
           val == IF t.raised THEN NaN ELSE t.result
       IN USGS_STREAMFLOW' =
             IF t.orphan THEN USGS_STREAMFLOW
             ELSE SetChild(USGS_STREAMFLOW, LabelsOf(gauges[h][i]), val)
    /\ tasks' = [tasks EXCEPT ![h][i].st = "merged", ![h][i].orphan = FALSE]
    /\ UNCHANGED <<inserted, config, scalars, ratelimits, pc, locals, rendered, cyclesLeft>>

AllMerged(h) == \A i \in 1..Len(tasks[h]) : tasks[h][i].st = "merged"

\* Mutant of PublishSuccess: the counters are published without waiting for
\* the futures still outstanding.
PublishSuccessEarly(h) ==
    /\ pc[h] = "collect"
    /\ SCRAPE_SUCCESS' = successes[h]
    /\ pc' = [pc EXCEPT ![h] = "pub_failure"]
    /\ UNCHANGED <<inserted, config, USGS_STREAMFLOW, SCRAPE_FAILURE, GAUGES_TOTAL,
                   SCRAPE_DURATION, ratelimits, locals, tasks, rendered, cyclesLeft>>

\* Line 181, reached when as_completed is exhausted and the pool has shut down.
PublishSuccess(h) ==
    /\ pc[h] = "collect"
    /\ AllMerged(h)
    /\ SCRAPE_SUCCESS' = successes[h]
    /\ pc' = [pc EXCEPT ![h] = "pub_failure"]
    /\ UNCHANGED <<inserted, config, USGS_STREAMFLOW, SCRAPE_FAILURE, GAUGES_TOTAL,
                   SCRAPE_DURATION, ratelimits, locals, tasks, rendered, cyclesLeft>>

\* Line 182.
PublishFailure(h) ==
    /\ pc[h] = "pub_failure"
    /\ SCRAPE_FAILURE' = failures[h]
    /\ pc' = [pc EXCEPT ![h] = "pub_duration"]
    /\ UNCHANGED <<inserted, config, USGS_STREAMFLOW, SCRAPE_SUCCESS, GAUGES_TOTAL,
                   SCRAPE_DURATION, ratelimits, locals, tasks, rendered, cyclesLeft>>

\* Elapsed times the clock may give; the program only stores them.
Durations == {0, 1}

\* Line 183: the elapsed wall-clock time is whatever the clock says.
PublishDuration(h) ==
    /\ pc[h] = "pub_duration"
    /\ \E d \in Durations : SCRAPE_DURATION' = d
    /\ pc' = [pc EXCEPT ![h] = "render"]
    /\ UNCHANGED <<inserted, config, USGS_STREAMFLOW, SCRAPE_SUCCESS, SCRAPE_FAILURE,
                   GAUGES_TOTAL, ratelimits, locals, tasks, rendered, cyclesLeft>>

\* Line 185, generate_latest(): the metrics are collected one after the other
\* in the order of their registration.  The handler is about to read metric
\* number n.
AboutToRead(h, n) ==
    /\ pc[h] = "render"
    /\ ~collected[h].open
    /\ n = Len(collected[h].done) + 1
    /\ n <= Len(Metrics)

\* Line 185: the value of a metric without labels is read, under its lock.
Collect(h) ==
    /\ \E n \in 1..Len(Metrics) :
          /\ AboutToRead(h, n)
          /\ Names[n] \notin Labelled
          /\ collected' = [collected EXCEPT ![h].done = Append(@, Metrics[n])]
    /\ UNCHANGED <<inserted, config, USGS_STREAMFLOW, scalars, ratelimits, pc,
                   gauges, successes, failures, tasks, rendered, cyclesLeft>>

\* Line 185: the children dict of a labelled metric is copied under the
\* metric's lock; the values of the children are not read yet.  A metric
\* without children is read by that.
CopyChildren(h) ==
    /\ \E n \in 1..Len(Metrics) :
          /\ AboutToRead(h, n)
          /\ Names[n] \in Labelled
          /\ collected' =
                [collected EXCEPT ![h] =
                    IF inserted[Names[n]] = <<>>
                    THEN [@ EXCEPT !.done = Append(@, <<>>)]
                    ELSE [@ EXCEPT !.open = TRUE, !.keys = inserted[Names[n]]]]
    /\ UNCHANGED <<inserted, config, USGS_STREAMFLOW, scalars, ratelimits, pc,
                   gauges, successes, failures, tasks, rendered, cyclesLeft>>

\* Line 185: the value of the next child of the copy is read, under the
\* child's own lock; with the last child the metric is read.
ReadChild(h) ==
    /\ pc[h] = "render"
    /\ collected[h].open
    /\ LET c == collected[h]
           k == c.keys[Cardinality(DOMAIN c.vals) + 1]
           m == Metrics[Len(c.done) + 1]
           v == IF k \in DOMAIN c.held THEN c.held[k] ELSE m[k]
           vals == SetChild(c.vals, k, v)
       IN collected' =
             [collected EXCEPT ![h] =
                 IF Cardinality(DOMAIN vals) = Len(c.keys)
                 THEN [NoRead EXCEPT !.done = Append(c.done, vals)]
                 ELSE [c EXCEPT !.vals = vals]]
    /\ UNCHANGED <<inserted, config, USGS_STREAMFLOW, scalars, ratelimits, pc,
                   gauges, successes, failures, tasks, rendered, cyclesLeft>>

\* Line 185: every metric is read; the text of what was read is returned.
Render(h) ==
    /\ pc[h] = "render"
    /\ ~collected[h].open
    /\ Len(collected[h].done) = Len(Metrics)
    /\ rendered' = Append(rendered, Response(h, 200, SnapshotOf(collected[h].done)))
    /\ collected' = [collected EXCEPT ![h] = NoRead]
    /\ pc' = [pc EXCEPT ![h] = "idle"]
    /\ UNCHANGED <<inserted, config, USGS_STREAMFLOW, scalars, ratelimits, gauges,
                   successes, failures, tasks, cyclesLeft>>

----------------------------------------------------------------------------
(* Inputs *)

Ids == {"g1", "g2"}

\* Entries of the gauge file: two descriptors of g1 that resolve to different
\* label triples, one of g2, and an entry without "id".
D1 == Desc("g1", Absent, Absent)
D2 == Desc("g1", "n1", Absent)
D3 == Desc("g2", Absent, "f1")
DBad == Desc(Absent, "n1", Absent)
Entries == {D1, D2, D3, DBad}

\* Entries with a key whose value is null: the name, the id.
DNullName == Desc("g1", Null, Absent)
DNullId == Desc(Null, "n1", Absent)

RECURSIVE SeqsUpTo(_, _)
SeqsUpTo(S, n) ==
    IF n = 0 THEN {<<>>}
    ELSE SeqsUpTo(S, n - 1) \cup
         {Append(q, x) : q \in {p \in SeqsUpTo(S, n - 1) : Len(p) = n - 1}, x \in S}

GaugeFiles ==
    {[kind |-> "list", entries |-> q] : q \in SeqsUpTo(Entries, MaxGauges)}
    \cup {[kind |-> "other", entries |-> <<>>]}

IdsOf(gs) == {gs[i].id : i \in 1..Len(gs)}

\* Upstream answers a scrape is run against: a reading, an empty result with
\* other rate-limit headers, and a rate-limit rejection.
ScrapeResponses ==
    {Ok(HInt(450), HInt(500), Body("number", 42)),
     Ok(HInt(449), HInt(500), Body("nofeatures", 0)),
     HttpError(429)}

\* Upstream answers by the way a fetch goes on after them: a reading, and a
\* 2xx answer that line 125 rejects, which sends the fetch to the backup
\* credential.
OutcomeResponses ==
    {Ok(HInt(450), HInt(500), Body("number", 42)),
     Ok(HAbsent, HAbsent, Body("number", 7))}

\* Upstream answers a single fetch is run against.
HeaderRemaining == {HAbsent, HText, HInt(450), HInt(0)}
HeaderLimit == {HAbsent, HText, HInt(500)}
Bodies == {Body("invalid_json", 0), Body("nofeatures", 0), Body("number", 42),
           Body("nested", 42), Body("nested_novalue", 0), Body("value_missing", 0)}
FetchResponses ==
    {TransportError, HttpError(429), HttpError(404)}
    \cup {Ok(r, l, b) : r \in HeaderRemaining, l \in HeaderLimit, b \in Bodies}

\* Does fetch_usgs_gauge go on to the next credential after this answer.
FailsOver(r) ==
    r.exc \/ RaisesForStatus(r) \/ UsedOf(r).exc \/ ParseBody(r.body).exc

\* Requests that are never sent (for a gauge that is not in the list, or with
\* the backup credential when the primary answer ends the fetch) have a fixed
\* answer: only the answers that are read are enumerated.
UpstreamsFor(ids, responses) ==
    {u \in {[k \in (Ids \cup {Null}) \X Labels |->
                IF k[1] \in ids THEN f[k] ELSE TransportError] :
              f \in [ids \X Labels -> responses \cup {TransportError}]} :
        \A id \in ids :
            /\ u[<<id, "primary">>] \in responses
            /\ IF FailsOver(u[<<id, "primary">>])
               THEN u[<<id, "backup">>] \in responses
               ELSE u[<<id, "backup">>] = TransportError}

Init ==
    /\ InitProcess
    /\ gaugesFile \in GaugeFiles
    /\ MAX_WORKERS \in 1..MaxWorkersCfg
    /\ apiKeys = [l \in Labels |-> TRUE]
    /\ upstream \in UpstreamsFor(IdsOf(load_gauges(gaugesFile)), ScrapeResponses)
    /\ cyclesLeft = MaxCycles

\* One /metrics request over lists of distinct gauges.
InitLive ==
    /\ InitProcess
    /\ gaugesFile \in {[kind |-> "list", entries |-> q] : q \in SeqsUpTo({D1, D3}, MaxGauges)}
    /\ MAX_WORKERS \in 1..MaxWorkersCfg
    /\ apiKeys = [l \in Labels |-> TRUE]
    /\ upstream \in UpstreamsFor(IdsOf(load_gauges(gaugesFile)), OutcomeResponses)
    /\ cyclesLeft = 1

InitFetch ==
    /\ InitProcess
    /\ gaugesFile \in {[kind |-> "list", entries |-> <<d>>] :
                          d \in {D2, DNullName, DNullId}}
    /\ MAX_WORKERS = 1
    /\ apiKeys \in [Labels -> BOOLEAN]
    /\ upstream \in UpstreamsFor(IdsOf(load_gauges(gaugesFile)), FetchResponses)
    /\ cyclesLeft = 1

\* Upstream answers by the error they end in: none, a transport exception, an
\* HTTP error other than 429, an exception while a 2xx response is handled
\* (line 125 on a response without the limit header).
ErrorResponses ==
    {Ok(HInt(450), HInt(500), Body("number", 42)),
     TransportError,
     HttpError(404),
     Ok(HText, HAbsent, Body("number", 7))}

\* One /metrics request over lists of distinct gauges whose requests fail in
\* every way.
InitErrors ==
    /\ InitProcess
    /\ gaugesFile \in {[kind |-> "list", entries |-> q] : q \in SeqsUpTo({D1, D3}, MaxGauges)}
    /\ MAX_WORKERS \in 1..MaxWorkersCfg
    /\ apiKeys = [l \in Labels |-> TRUE]
    /\ upstream \in UpstreamsFor(IdsOf(load_gauges(gaugesFile)), ErrorResponses)
    /\ cyclesLeft = 1

\* Upstream answers of scrapes between which the gauge file is edited: a
\* reading, and a rate-limit rejection that sends the fetch to the backup
\* credential.
EditResponses ==
    {Ok(HInt(450), HInt(500), Body("number", 42)),
     HttpError(429)}

\* The gauge files an edit chooses from.
EditFiles ==
    {[kind |-> "list", entries |-> q] : q \in SeqsUpTo({D1, D3}, MaxGauges)}

\* /metrics requests between which gauges.yaml may be edited.
InitEdit ==
    /\ InitProcess
    /\ gaugesFile \in EditFiles
    /\ MAX_WORKERS \in 1..MaxWorkersCfg
    /\ apiKeys = [l \in Labels |-> TRUE]
    /\ upstream \in UpstreamsFor(Ids, EditResponses)
    /\ cyclesLeft = MaxCycles

\* Line 149 reads gauges.yaml anew at every request: between two requests the
\* file may have been replaced.
EditGaugesFile ==
    /\ pc[1] = "idle"
    /\ cyclesLeft > 0
    /\ rendered # <<>>
    /\ gaugesFile' \in EditFiles \ {gaugesFile}
    /\ UNCHANGED <<inserted, MAX_WORKERS, apiKeys, upstream, USGS_STREAMFLOW, scalars,
                   ratelimits, pc, locals, tasks, rendered, cyclesLeft>>

\* Two /metrics requests over the same non-empty list, served by two threads
\* of the server.
InitConc ==
    /\ InitProcess
    /\ gaugesFile \in {[kind |-> "list", entries |-> q] :
                          q \in SeqsUpTo({D1, D3}, MaxGauges) \ {<<>>}}
    /\ MAX_WORKERS = 1
    /\ apiKeys = [l \in Labels |-> TRUE]
    /\ upstream \in UpstreamsFor(IdsOf(load_gauges(gaugesFile)), EditResponses)
    /\ cyclesLeft = MaxCycles

\* Upstream answers of scrapes that are repeated: two 2xx answers with
\* different rate-limit headers, a reading and an empty result.
RepeatResponses ==
    {Ok(HInt(450), HInt(500), Body("number", 42)),
     Ok(HInt(449), HInt(500), Body("nofeatures", 0))}

\* /metrics requests served one after the other over lists of the two gauges,
\* file and upstream unchanged.
InitRepeat ==
    /\ InitProcess
    /\ gaugesFile \in {[kind |-> "list", entries |-> q] : q \in SeqsUpTo({D1, D3}, MaxGauges)}
    /\ MAX_WORKERS \in 1..MaxWorkersCfg
    /\ apiKeys = [l \in Labels |-> TRUE]
    /\ upstream \in UpstreamsFor(IdsOf(load_gauges(gaugesFile)), RepeatResponses)
    /\ cyclesLeft = MaxCycles

\* One /metrics request over lists that repeat one descriptor: what the pool
\* of line 156 does depends on the number of futures and on MAX_WORKERS, not
\* on which gauges they read.
InitPool ==
    /\ InitProcess
    /\ gaugesFile \in {[kind |-> "list", entries |-> q] : q \in SeqsUpTo({D1}, MaxGauges)}
    /\ MAX_WORKERS \in 1..MaxWorkersCfg
    /\ apiKeys = [l \in Labels |-> TRUE]
    /\ upstream \in UpstreamsFor(IdsOf(load_gauges(gaugesFile)), OutcomeResponses)
    /\ cyclesLeft = 1

----------------------------------------------------------------------------
(* Specifications *)

TaskStep(h) ==
    \/ \E i \in 1..Len(tasks[h]) : Request(h, i)
    \/ \E i \in 1..Len(tasks[h]) : RemainingLabels(h, i)
    \/ \E i \in 1..Len(tasks[h]) : SetRemaining(h, i)
    \/ \E i \in 1..Len(tasks[h]) : LimitLabels(h, i)
    \/ \E i \in 1..Len(tasks[h]) : SetLimit(h, i)
    \/ \E i \in 1..Len(tasks[h]) : UsedLabels(h, i)
    \/ \E i \in 1..Len(tasks[h]) : SetUsed(h, i)

CollectStep(h) ==
    \/ \E i \in 1..Len(tasks[h]) : Merge(h, i)
    \/ \E i \in 1..Len(tasks[h]) : SetStreamflow(h, i)
    \/ Collect(h)
    \/ CopyChildren(h)
    \/ ReadChild(h)
    \/ PublishSuccess(h)
    \/ PublishFailure(h)
    \/ PublishDuration(h)
    \/ Render(h)

\* /metrics requests served one after the other by handler 1.
Next ==
    \/ StartCycle(1)
    \/ ClearStreamflow(1)
    \/ ExecutorRaises(1)
    \/ Dispatch(1)
    \/ TaskStep(1)
    \/ CollectStep(1)

Spec == Init /\ [][Next]_vars

\* One /metrics request over a one-gauge list: a single fetch_usgs_gauge.
NextFetch ==
    \/ StartCycle(1)
    \/ ClearStreamflow(1)
    \/ Dispatch(1)
    \/ TaskStep(1)
    \/ CollectStep(1)

SpecFetch == InitFetch /\ [][NextFetch]_vars

SpecErrors == InitErrors /\ [][Next]_vars

\* /metrics requests served one after the other, gauges.yaml edited in between.
NextEdit ==
    \/ Next
    \/ EditGaugesFile

SpecEdit == InitEdit /\ [][NextEdit]_vars

\* app.run serves each request in a thread of its own: two /metrics requests
\* may overlap, each running metrics() on the one registry.
NextConc ==
    \E h \in Handlers :
        \/ StartCycle(h)
        \/ ClearStreamflow(h)
        \/ Dispatch(h)
        \/ TaskStep(h)
        \/ CollectStep(h)

SpecConc == InitConc /\ [][NextConc]_vars

SpecRepeat == InitRepeat /\ [][Next]_vars

\* The threads of a request are scheduled, and every session.get ends (an
\* answer, or an exception once the timeout and the retries are used up): a
\* task that can step does, and so does the handler.  No /metrics request is
\* bound to arrive.
Fairness ==
    /\ WF_vars(TaskStep(1))
    /\ WF_vars(ClearStreamflow(1) \/ ExecutorRaises(1) \/ Dispatch(1) \/ CollectStep(1))

SpecLive == InitLive /\ [][Next]_vars /\ Fairness

SpecPool == InitPool /\ [][Next]_vars /\ Fairness

----------------------------------------------------------------------------
(* Properties *)

\* The responses that carry a snapshot.
Returned == {k \in 1..Len(rendered) : rendered[k].status = 200}

\* The single reading task of SpecFetch, once fetch_usgs_gauge has returned.
FetchReturned ==
    /\ Len(tasks[1]) = 1
    /\ tasks[1][1].st \in {"finished", "merged"}
Primary == upstream[<<gauges[1][1].id, "primary">>]
Backup == upstream[<<gauges[1][1].id, "backup">>]
Is2xx(r) == ~r.exc /\ ~RaisesForStatus(r)
RequestedLabels(t) == {t.reqs[k].label : k \in 1..Len(t.reqs)}

\* C1: after a scrape over a non-empty list, the per-gauge map has exactly one
\* entry per distinct gauge_id of the list, each a number or NaN, and
\* gauges_total is the length of the list.
C1_OneEntryPerGaugeId ==
    \A k \in Returned :
        LET e == rendered[k]
            sf == e.snapshot.streamflow
        IN Len(e.gauges) > 0 =>
              /\ \A id \in IdsOf(e.gauges) :
                    Cardinality({x \in DOMAIN sf : x[1] = id}) = 1
              /\ \A x \in DOMAIN sf : x[1] \in IdsOf(e.gauges)
              /\ e.snapshot.gauges_total = Len(e.gauges)

\* C2: when the counters are published, the success counter is the number of
\* gauges whose outcome is a number and the failure counter is the number of
\* gauges whose outcome is NaN.
C2_CountersFollowOutcomes ==
    pc[1] = "render" =>
        /\ SCRAPE_SUCCESS =
              Cardinality({i \in 1..Len(tasks[1]) : ~IsNaN(tasks[1][i].result)})
        /\ SCRAPE_FAILURE =
              Cardinality({i \in 1..Len(tasks[1]) : IsNaN(tasks[1][i].result)})

\* C3: if the primary request is answered 429 and the backup request 2xx with a
\* non-empty feature list holding a number, fetch_usgs_gauge returns that number.
C3_FailoverToBackup ==
    (/\ FetchReturned
     /\ ~Primary.exc /\ Primary.status = 429
     /\ Is2xx(Backup) /\ Backup.body.tag \in {"number", "nested"})
    => tasks[1][1].result = Num(Backup.body.n)

\* C4: a scrape over an empty gauge list returns a snapshot with
\* gauges_total = 0, no per-gauge entry, and zero successes and failures.
C4_EmptyListSnapshot ==
    \A k \in 1..Len(rendered) :
        LET e == rendered[k]
        IN Len(e.gauges) = 0 =>
              /\ e.status = 200
              /\ e.snapshot.gauges_total = 0
              /\ e.snapshot.streamflow = <<>>
              /\ e.snapshot.success = 0
              /\ e.snapshot.failure = 0

\* C5: on a 2xx response the rate-limit headers are optional: whatever they
\* are, the body is parsed and its value returned, with no further credential
\* tried.
C5_HeadersOptional ==
    (/\ FetchReturned
     /\ Is2xx(Primary) /\ ~ParseBody(Primary.body).exc)
    => /\ tasks[1][1].result = ParseBody(Primary.body).val
       /\ RequestedLabels(tasks[1][1]) = {"primary"}

\* C6: if the first credential gets a 2xx response with an empty feature list,
\* fetch_usgs_gauge returns NaN from that response, the backup credential is
\* not tried, and the gauge is not counted as a failure.
C6_EmptyFeaturesEndsFetch ==
    (/\ FetchReturned
     /\ Is2xx(Primary) /\ Primary.body.tag = "nofeatures")
    => /\ IsNaN(tasks[1][1].result)
       /\ Len(tasks[1][1].reqs) = 1
       /\ tasks[1][1].reqs[1].label = "primary"
       /\ (tasks[1][1].st = "merged" => failures[1] = 0)


\* C7: once a credential's turn on a 2xx response with integer headers
\* remaining = r and limit = l is over, the registry holds remaining = r,
\* limit = l and used = l - r for that credential's label, whether or not the
\* body gave a reading.
TurnOver(t, L) ==
    /\ L \in RequestedLabels(t)
    /\ t.st \in {"finished", "merged"} \/ TaskLabel(t) # L
C7_RateLimitObservation ==
    \A L \in Labels :
        (/\ Len(tasks[1]) = 1
         /\ TurnOver(tasks[1][1], L)
         /\ Is2xx(upstream[<<gauges[1][1].id, L>>])
         /\ upstream[<<gauges[1][1].id, L>>].remaining.tag = "int"
         /\ upstream[<<gauges[1][1].id, L>>].limit.tag = "int")
        => LET r == upstream[<<gauges[1][1].id, L>>]
           IN /\ L \in DOMAIN USGS_API_RATELIMIT_REMAINING
              /\ L \in DOMAIN USGS_API_RATELIMIT_LIMIT
              /\ L \in DOMAIN USGS_API_REQUESTS_PER_HOUR
              /\ USGS_API_RATELIMIT_REMAINING[L] = r.remaining.n
              /\ USGS_API_RATELIMIT_LIMIT[L] = r.limit.n
              /\ USGS_API_REQUESTS_PER_HOUR[L] = r.limit.n - r.remaining.n

\* A 2xx answer with 450 of 500 remaining and a body that is no JSON: used = 50
\* is recorded although the fetch returns NaN.
C7_Witness ==
    /\ FetchReturned
    /\ Primary = Ok(HInt(450), HInt(500), Body("invalid_json", 0))
    /\ "primary" \in DOMAIN USGS_API_REQUESTS_PER_HOUR
    /\ USGS_API_REQUESTS_PER_HOUR["primary"] = 50
    /\ USGS_API_RATELIMIT_REMAINING["primary"] = 450
    /\ USGS_API_RATELIMIT_LIMIT["primary"] = 500
    /\ IsNaN(tasks[1][1].result)

----------------------------------------------------------------------------
(* The scrape run by one thread, descriptor after descriptor: the reference  *)
(* the concurrent scrape is compared with.                                   *)

RECURSIVE RefFetchFrom(_, _)
RefFetchFrom(id, c) ==
    IF c > Len(Credentials) THEN NaN
    ELSE LET r == upstream[<<id, Credentials[c]>>]
         IN IF r.exc \/ RaisesForStatus(r) \/ UsedOf(r).exc \/ ParseBody(r.body).exc
            THEN RefFetchFrom(id, c + 1)
            ELSE ParseBody(r.body).val
RefFetch(id) == RefFetchFrom(id, 1)

RECURSIVE RefStreamflow(_, _)
RefStreamflow(gs, n) ==
    IF n = 0 THEN <<>>
    ELSE SetChild(RefStreamflow(gs, n - 1), LabelsOf(gs[n]), RefFetch(gs[n].id))

RefSuccess(gs) == Cardinality({i \in 1..Len(gs) : CountsAsSuccess(RefFetch(gs[i].id))})
RefFailure(gs) == Cardinality({i \in 1..Len(gs) : ~CountsAsSuccess(RefFetch(gs[i].id))})

\* A header's metric after labels() and set() of one response, run without
\* another thread in between.
RefFromHeader(m, k, h) ==
    IF h.tag = "absent" THEN m
    ELSE IF IntOf(h).exc = "none" THEN SetChild(m, k, IntOf(h).n)
    ELSE TouchChild(m, k, 0)

RECURSIVE RefRateLimitTurn(_, _, _)
RefRateLimitTurn(reg, id, c) ==
    IF c > Len(Credentials) THEN reg
    ELSE LET L == Credentials[c]
             r == upstream[<<id, L>>]
             seen == [remaining |-> RefFromHeader(reg.remaining, L, r.remaining),
                      limit |-> RefFromHeader(reg.limit, L, r.limit),
                      used |-> IF UsedOf(r).exc THEN reg.used
                               ELSE SetChild(reg.used, L, UsedOf(r).n)]
         IN IF r.exc \/ RaisesForStatus(r) THEN RefRateLimitTurn(reg, id, c + 1)
            ELSE IF UsedOf(r).exc \/ ParseBody(r.body).exc
                 THEN RefRateLimitTurn(seen, id, c + 1)
                 ELSE seen

RECURSIVE RefRateLimit(_, _)
RefRateLimit(gs, n) ==
    IF n = 0 THEN [remaining |-> <<>>, limit |-> <<>>, used |-> <<>>]
    ELSE RefRateLimitTurn(RefRateLimit(gs, n - 1), gs[n].id, 1)

ReadingsAsSequential(e) ==
    /\ e.snapshot.streamflow = RefStreamflow(e.gauges, Len(e.gauges))
    /\ e.snapshot.success = RefSuccess(e.gauges)
    /\ e.snapshot.failure = RefFailure(e.gauges)
    /\ e.snapshot.gauges_total = Len(e.gauges)

RateLimitsAsSequential(e) ==
    /\ e.snapshot.remaining = RefRateLimit(e.gauges, Len(e.gauges)).remaining
    /\ e.snapshot.limit = RefRateLimit(e.gauges, Len(e.gauges)).limit
    /\ e.snapshot.used = RefRateLimit(e.gauges, Len(e.gauges)).used

\* C8 as stated: the snapshot of a scrape (the first one of the process, whose
\* registry starts empty) is, duration aside, the snapshot of the one-thread
\* scrape of the same list, whatever the pool size and the completion order:
\* per-gauge values, counters, gauges_total and rate-limit observations.
C8_SnapshotOrderIndependent ==
    \A k \in Returned :
        rendered[k].left = MaxCycles - 1 =>
            /\ ReadingsAsSequential(rendered[k])
            /\ RateLimitsAsSequential(rendered[k])

\* C8 amended: the per-gauge entries and values, the success and failure
\* counters and gauges_total of every returned snapshot are those of the
\* one-thread scrape of the same list, whatever the pool size and the
\* completion order.
C8_ReadingsOrderIndependent ==
    \A k \in Returned : ReadingsAsSequential(rendered[k])

\* Two gauges, two entries, and a completion order that left other rate-limit
\* values than the one-thread scrape does.
C8_Witness ==
    \E k \in Returned :
        /\ rendered[k].left = MaxCycles - 1
        /\ Len(rendered[k].gauges) = 2
        /\ Cardinality(DOMAIN rendered[k].snapshot.streamflow) = 2
        /\ rendered[k].snapshot.remaining #
              RefRateLimit(rendered[k].gauges, 2).remaining

\* C9: a task sends at most one request per credential; the counters are
\* published and the snapshot rendered only when every task has finished and
\* been merged; and a scrape over a non-empty list, once started, returns its
\* snapshot.
C9_Safety ==
    /\ \A i \in 1..Len(tasks[1]) :
          /\ Len(tasks[1][i].reqs) <= Len(Credentials)
          /\ Cardinality(RequestedLabels(tasks[1][i])) = Len(tasks[1][i].reqs)
    /\ pc[1] \in {"pub_failure", "pub_duration", "render"} =>
          /\ Len(tasks[1]) = Len(gauges[1])
          /\ AllMerged(1)
C9_CycleCompletes ==
    /\ []C9_Safety
    /\ (pc[1] # "idle" /\ Len(gauges[1]) > 0)
          ~> (/\ pc[1] = "idle"
              /\ rendered # <<>>
              /\ rendered[Len(rendered)].status = 200)

\* A scrape of two gauges has returned, one of its tasks having used both
\* credentials.
C9_Witness ==
    /\ pc[1] = "idle"
    /\ Len(rendered) >= 1
    /\ rendered[Len(rendered)].status = 200
    /\ Len(tasks[1]) = 2
    /\ AllMerged(1)
    /\ \E i \in 1..2 : Len(tasks[1][i].reqs) = 2

SameReadings(a, b) ==
    /\ a.streamflow = b.streamflow
    /\ a.success = b.success
    /\ a.failure = b.failure
    /\ a.gauges_total = b.gauges_total

SameRateLimits(a, b) ==
    /\ a.remaining = b.remaining
    /\ a.limit = b.limit
    /\ a.used = b.used

\* C10 as stated: two successive scrapes of the same list against the same
\* upstream return snapshots equal in everything but duration.
C10_SuccessiveSnapshotsEqual ==
    \A k \in Returned :
        (k + 1) \in Returned =>
            /\ SameReadings(rendered[k].snapshot, rendered[k + 1].snapshot)
            /\ SameRateLimits(rendered[k].snapshot, rendered[k + 1].snapshot)

\* C10 amended: two successive scrapes of the same list against the same
\* upstream return snapshots with equal per-gauge entries and values, equal
\* success and failure counters and equal gauges_total.
C10_SuccessiveReadingsEqual ==
    \A k \in Returned :
        (k + 1) \in Returned =>
            SameReadings(rendered[k].snapshot, rendered[k + 1].snapshot)

\* Two scrapes have returned, with readings, and with different rate-limit
\* observations.
C10_Witness ==
    /\ Len(rendered) = 2
    /\ Returned = {1, 2}
    /\ DOMAIN rendered[1].snapshot.streamflow # {}
    /\ ~SameRateLimits(rendered[1].snapshot, rendered[2].snapshot)

\* C11: for a 2xx response with at least one feature, fetch_usgs_gauge returns
\* the outcome parsed from it: the first feature's value if it is a plain
\* number, the inner value if it is nested (the two forms of one number give
\* the same result), and NaN if the nested form has no inner value.
C11_ParsedValue ==
    (FetchReturned /\ Is2xx(Primary)) =>
        LET b == Primary.body
            t == tasks[1][1]
        IN /\ b.tag = "number" => t.result = Num(b.n) /\ Len(t.reqs) = 1
           /\ b.tag = "nested" => t.result = Num(b.n) /\ Len(t.reqs) = 1
           /\ b.tag = "nested_novalue" => IsNaN(t.result) /\ Len(t.reqs) = 1

\* C12: the requests of one fetch are sent in the order primary, backup, at
\* most one each; the backup request is sent only if the primary attempt ended
\* without a parsed value (transport or HTTP error, or an exception while the
\* response was handled); once a 2xx response has been parsed, to a number or
\* to the NaN of an empty feature list, the fetch has returned that value and
\* no further request is sent.
C12_PrimaryThenBackup ==
    Len(tasks[1]) = 1 =>
        LET t == tasks[1][1]
        IN /\ Len(t.reqs) <= 2
           /\ Len(t.reqs) >= 1 => t.reqs[1].label = "primary"
           /\ Len(t.reqs) = 2 => t.reqs[2].label = "backup" /\ FailsOver(Primary)
           /\ (FetchReturned /\ ~FailsOver(Primary)) =>
                 /\ Len(t.reqs) = 1
                 /\ t.result = ParseBody(Primary.body).val
           /\ (FetchReturned /\ FailsOver(Primary) /\ ~FailsOver(Backup)) =>
                 /\ Len(t.reqs) = 2
                 /\ t.result = ParseBody(Backup.body).val

\* C12: the primary request failed over, the backup response was parsed and
\* returned after exactly two requests.
C12_Witness ==
    /\ FetchReturned
    /\ Primary = HttpError(429)
    /\ Backup = Ok(HInt(450), HInt(500), Body("number", 42))
    /\ tasks[1][1].result = Num(42)
    /\ Len(tasks[1][1].reqs) = 2

\* The answers to the requests of the i-th task of the request in progress.
PrimaryOf(i) == upstream[<<gauges[1][i].id, "primary">>]
BackupOf(i) == upstream[<<gauges[1][i].id, "backup">>]

\* C13: fetch_usgs_gauge never raises.  After a transport exception, an HTTP
\* error (429 or other) or an exception while a response is handled, the next
\* credential is tried; when both credentials have ended this way NaN is
\* returned.  What a task returns depends on the answers to its own gauge's
\* requests only, and a scrape over a non-empty list always ends in a
\* snapshot.
C13_ErrorsContained ==
    /\ \A i \in 1..Len(tasks[1]) :
          LET t == tasks[1][i]
          IN /\ ~t.raised
             /\ t.st \in {"finished", "merged"} =>
                   /\ FailsOver(PrimaryOf(i)) => RequestedLabels(t) = Labels
                   /\ (FailsOver(PrimaryOf(i)) /\ FailsOver(BackupOf(i))) => IsNaN(t.result)
                   /\ t.result = RefFetch(gauges[1][i].id)
    /\ \A k \in 1..Len(rendered) :
          Len(rendered[k].gauges) > 0 =>
             /\ rendered[k].status = 200
             /\ DOMAIN rendered[k].snapshot.streamflow =
                   {LabelsOf(rendered[k].gauges[i]) : i \in 1..Len(rendered[k].gauges)}

\* C13: g1's two requests ended in a 404 and a transport exception, g2's
\* reading is in the snapshot next to g1's NaN.
C13_Witness ==
    /\ Returned # {}
    /\ gauges[1] = <<D1, D3>>
    /\ PrimaryOf(1) = HttpError(404) /\ BackupOf(1) = TransportError
    /\ IsNaN(tasks[1][1].result)
    /\ tasks[1][2].result = Num(42)
    /\ rendered[Len(rendered)].snapshot.streamflow[LabelsOf(D3)] = Num(42)

\* C14: a credential whose secret is not set is tried like any other, its
\* request sent without the X-Api-Key header; with no secret set, the primary
\* request and, if it fails, the backup request are sent without the header,
\* and a 2xx response to either that carries a number gives that number.
C14_AbsentSecretStillTried ==
    FetchReturned =>
        LET t == tasks[1][1]
            Reading(r) == Is2xx(r) /\ r.body.tag \in {"number", "nested"}
        IN /\ \A k \in 1..Len(t.reqs) : t.reqs[k].key = apiKeys[t.reqs[k].label]
           /\ (\A l \in Labels : ~apiKeys[l]) =>
                 /\ t.reqs[1] = [label |-> "primary", key |-> FALSE]
                 /\ Reading(Primary) => t.result = Num(Primary.body.n)
                 /\ ~Is2xx(Primary) =>
                       /\ Len(t.reqs) = 2
                       /\ t.reqs[2] = [label |-> "backup", key |-> FALSE]
                       /\ Reading(Backup) => t.result = Num(Backup.body.n)

\* C15 (safety part): one task per descriptor of the list, at most
\* min(MAX_WORKERS, N) of them running at any moment, and a task waits only
\* while that many are running.
C15_PoolBound ==
    /\ Cardinality(Running(1)) <= PoolSize(MAX_WORKERS, gauges[1])
    /\ Queued(1) # {} => Cardinality(Running(1)) = PoolSize(MAX_WORKERS, gauges[1])
    /\ pc[1] \in {"collect", "pub_failure", "pub_duration", "render"} =>
          Len(tasks[1]) = Len(gauges[1])

\* C15: exactly one reading task is dispatched per descriptor, never more than
\* min(MAX_WORKERS, N) tasks run at the same time, and every task that waits
\* for a worker is eventually run.
C15_BoundedPool ==
    /\ []C15_PoolBound
    /\ \A i \in 1..MaxGauges : (i \in Queued(1)) ~> (i \in Running(1))

\* C15: with one worker and two gauges, the second task runs after the first
\* one has finished.
C15_Witness ==
    /\ MAX_WORKERS = 1
    /\ Len(tasks[1]) = 2
    /\ tasks[1][1].st \in {"finished", "merged"}
    /\ tasks[1][2].st = "running"
    /\ Len(tasks[1][2].reqs) >= 1

\* The tasks this step takes from one state of the merge to the next, the
\* steps that write the per-gauge map or a counter, and the steps of a worker
\* thread.
MovedByStep(from, to) ==
    {i \in 1..Len(tasks[1]) :
        /\ Len(tasks'[1]) = Len(tasks[1])
        /\ tasks[1][i].st = from
        /\ tasks'[1][i].st = to}
WritesReadings ==
    \/ USGS_STREAMFLOW' # USGS_STREAMFLOW
    \/ successes' # successes
    \/ failures' # failures
WorkerStep ==
    \E i \in Running(1) :
        /\ Len(tasks'[1]) = Len(tasks[1])
        /\ tasks'[1][i] # tasks[1][i]

\* C16: within one scrape, no step of a worker task writes the per-gauge map,
\* the success and failure counts or their published gauges; they are written
\* by the handler only: the reset at the start, then for each task in turn one
\* pass of the merge loop, which counts the task once and looks up the entry of
\* its descriptor, then sets that entry to the task's result; the handler is
\* in one pass at a time, and no merged task is merged again.
C16_SingleWriter ==
    [][/\ WorkerStep =>
             /\ ~WritesReadings
             /\ SCRAPE_SUCCESS' = SCRAPE_SUCCESS
             /\ SCRAPE_FAILURE' = SCRAPE_FAILURE
       /\ WritesReadings =>
             \/ pc[1] = "clear"
             \/ /\ pc[1] = "collect"
                /\ Cardinality(MovedByStep("finished", "merging")) = 1
                /\ MovedByStep("merging", "merged") = {}
                /\ \A i \in MovedByStep("finished", "merging") :
                      USGS_STREAMFLOW' =
                         TouchChild(USGS_STREAMFLOW, LabelsOf(gauges[1][i]), Num(0))
             \/ /\ pc[1] = "collect"
                /\ Cardinality(MovedByStep("merging", "merged")) = 1
                /\ MovedByStep("finished", "merging") = {}
                /\ successes' = successes /\ failures' = failures
                /\ \A i \in MovedByStep("merging", "merged") :
                      USGS_STREAMFLOW' =
                         SetChild(USGS_STREAMFLOW, LabelsOf(gauges[1][i]),
                                  tasks[1][i].result)
       /\ MovedByStep("finished", "merging") # {} =>
             successes'[1] + failures'[1] = successes[1] + failures[1] + 1
       /\ \A i \in MovedByStep("merging", "merged") :
             USGS_STREAMFLOW'[LabelsOf(gauges[1][i])] = tasks[1][i].result
       /\ Cardinality({i \in 1..Len(tasks'[1]) : tasks'[1][i].st = "merging"}) <= 1
       /\ \A i \in 1..Len(tasks[1]) :
             /\ (tasks[1][i].st = "merged" /\ pc[1] # "idle") =>
                   /\ Len(tasks'[1]) = Len(tasks[1])
                   /\ tasks'[1][i] = tasks[1][i]
             /\ (Len(tasks'[1]) = Len(tasks[1]) /\ tasks'[1][i].st = "merged") =>
                   tasks[1][i].st \in {"merging", "merged"}
      ]_vars

\* C16: the first task's result has been merged into the map while the second
\* task is still running.
C16_Witness ==
    /\ Len(tasks[1]) = 2
    /\ tasks[1][1].st = "merged"
    /\ tasks[1][2].st = "running"
    /\ Len(tasks[1][2].reqs) >= 1
    /\ DOMAIN USGS_STREAMFLOW = {LabelsOf(gauges[1][1])}
    /\ successes[1] + failures[1] = 1

\* C17: when a scrape has returned, for every label that has a remaining, a
\* limit and a used child in the snapshot, used = limit - remaining: the three
\* values come from one response.
C17_TripleFromOneResponse ==
    \A k \in Returned :
        LET s == rendered[k].snapshot
        IN \A l \in DOMAIN s.remaining \cap DOMAIN s.limit \cap DOMAIN s.used :
              s.used[l] = s.limit[l] - s.remaining[l]

\* The labels for which a task of the scrape that has just returned received a
\* 2xx response carrying the header.
ObservedNow(header) ==
    {l \in Labels :
        \E i \in 1..Len(tasks[1]) :
            /\ l \in RequestedLabels(tasks[1][i])
            /\ Is2xx(upstream[<<gauges[1][i].id, l>>])
            /\ upstream[<<gauges[1][i].id, l>>][header] # HAbsent}

\* C18: the snapshot a scrape returns holds nothing written by an earlier
\* scrape: per-gauge entries for the gauges of the current list only, the
\* counters of this scrape, and rate-limit observations only for the labels
\* that received a 2xx response with the headers in this scrape.
C18_SnapshotFresh ==
    (pc[1] = "idle" /\ rendered # <<>> /\ rendered[Len(rendered)].status = 200) =>
        LET e == rendered[Len(rendered)]
            s == e.snapshot
        IN /\ DOMAIN s.streamflow = {LabelsOf(e.gauges[i]) : i \in 1..Len(e.gauges)}
           /\ s.gauges_total = Len(e.gauges)
           /\ s.success = successes[1]
           /\ s.failure = failures[1]
           /\ DOMAIN s.remaining \subseteq ObservedNow("remaining")
           /\ DOMAIN s.limit \subseteq ObservedNow("limit")
           /\ DOMAIN s.used \subseteq ObservedNow("remaining") \cap ObservedNow("limit")

\* C19: when two /metrics requests over the same list overlap, each returned
\* snapshot has an entry for every gauge of the list, and its counters are the
\* counts of the request that returned it.
C19_OverlapIsolated ==
    \A k \in Returned :
        LET e == rendered[k]
            s == e.snapshot
        IN /\ \A i \in 1..Len(e.gauges) :
                 LabelsOf(e.gauges[i]) \in DOMAIN s.streamflow
           /\ (/\ pc[e.h] = "idle"
               /\ \A j \in (k + 1)..Len(rendered) : rendered[j].h # e.h)
              => /\ s.success = successes[e.h]
                 /\ s.failure = failures[e.h]

\* C20: when the counters of a scrape over N descriptors are published and in
\* the snapshot it returns, success + failure = N = gauges_total; while the
\* results are collected, the two counts add up to the number of tasks taken
\* from as_completed so far, each task being counted once.
C20_CountsAddUp ==
    /\ pc[1] = "collect" =>
          successes[1] + failures[1] =
             Cardinality({i \in 1..Len(tasks[1]) :
                             tasks[1][i].st \in {"merging", "merged"}})
    /\ pc[1] \in {"pub_failure", "pub_duration", "render"} =>
          successes[1] + failures[1] = Len(gauges[1])
    /\ pc[1] = "render" =>
          /\ SCRAPE_SUCCESS + SCRAPE_FAILURE = Len(gauges[1])
          /\ GAUGES_TOTAL = Len(gauges[1])
    /\ \A k \in Returned :
          LET s == rendered[k].snapshot
          IN /\ s.success + s.failure = Len(rendered[k].gauges)
             /\ s.gauges_total = Len(rendered[k].gauges)

\* C20: a scrape over two descriptors has returned a snapshot whose counters
\* add up to two.
C20_Witness ==
    /\ pc[1] = "idle"
    /\ rendered # <<>>
    /\ rendered[Len(rendered)].status = 200
    /\ Len(rendered[Len(rendered)].gauges) = 2
    /\ rendered[Len(rendered)].snapshot.success
          + rendered[Len(rendered)].snapshot.failure = 2
    /\ rendered[Len(rendered)].snapshot.gauges_total = 2

====
